---- MODULE Spec2Model ----
(***************************************************************************)
(* A model of pong4k.py: the screen flow of main() (menu, match, game-over *)
(* prompt), and one match tick of game() with the paddles, the ball, the   *)
(* wall and paddle collisions and the scoring.                             *)
(*                                                                         *)
(* Rectangles are pygame.Rect: integer x, y, w, h with right = x + w,      *)
(* bottom = y + h, centerx = x + w // 2, centery = y + h // 2.  The ball's *)
(* velocity is a Python float; the model keeps it in fixed point, in units *)
(* of 1/Scale pixel per tick, each value rounded to the nearest unit.      *)
(***************************************************************************)
EXTENDS Integers, Sequences, FiniteSets

\* ------------------------------------------------------------ constants
WIDTH == 800
HEIGHT == 600
PADDLE_WIDTH == 15
PADDLE_HEIGHT == 100
BALL_SIZE == 15
BALL_SPEED == 7
PADDLE_SPEED == 7
TRACKING_BAND == 10
PADDLE_MARGIN == 30
WIN_SCORE == 5

\* Resolution of the fixed-point velocities: vx, vy are in 1/Scale pixel.
Scale == 1000

\* The angles the model knows: index k stands for the angle k * MAX_ANGLE / Steps,
\* so k = Steps is MAX_ANGLE = pi/3 and k = -Steps is -MAX_ANGLE.  Steps is
\* PADDLE_HEIGHT / 2: a hit offset is (an integer pixel distance) / (PADDLE_HEIGHT / 2).
Steps == PADDLE_HEIGHT \div 2

\* ------------------------------------------------------------ bounds
\* The longest batch of events one pygame.event.get() returns.
MaxBatch == 2

\* The angles Ball.reset draws from (random.uniform(-MAX_ANGLE, MAX_ANGLE)).
ResetAngles == {-31, 0, 31}

\* The pointer heights pygame.mouse.get_pos()[1] reports during a match.
MouseYs == {400, 450}

\* ------------------------------------------------------------ arithmetic
Abs(n) == IF n < 0 THEN -n ELSE n

Max(a, b) == IF a >= b THEN a ELSE b

Min(a, b) == IF a <= b THEN a ELSE b

\* A float assigned to a Rect coordinate is cut toward zero, (int)value.
TruncTowardZero(q) ==
    IF q >= 0 THEN q \div Scale ELSE -((-q) \div Scale)

\* round(BALL_SPEED * Scale * cos(k * MAX_ANGLE / Steps)) for k = 0 .. Steps, and
\* on to the largest index an overlapping ball's centre can be away from the
\* paddle's centre, 57: math.cos takes any angle.
CosTable == <<
    7000, 6998, 6994, 6986, 6975, 6962, 6945, 6925, 6902, 6876, 6847, 6815,
    6780, 6742, 6701, 6657, 6611, 6561, 6508, 6453, 6395, 6334, 6270, 6203,
    6134, 6062, 5988, 5910, 5830, 5748, 5663, 5576, 5486, 5394, 5299, 5202,
    5103, 5001, 4898, 4792, 4684, 4574, 4462, 4348, 4232, 4114, 3995, 3874,
    3751, 3626, 3500,
    3372, 3243, 3112, 2980, 2847, 2713, 2577 >>

\* round(BALL_SPEED * Scale * sin(k * MAX_ANGLE / Steps)) for the same indexes.
SinTable == <<
    0, 147, 293, 440, 586, 732, 877, 1023, 1167, 1312, 1455, 1598, 1741,
    1882, 2023, 2163, 2302, 2440, 2577, 2713, 2847, 2980, 3112, 3243, 3372,
    3500, 3626, 3751, 3874, 3995, 4114, 4232, 4348, 4462, 4574, 4684, 4792,
    4898, 5001, 5103, 5202, 5299, 5394, 5486, 5576, 5663, 5748, 5830, 5910,
    5988, 6062,
    6134, 6203, 6270, 6334, 6395, 6453, 6508 >>

\* BALL_SPEED * math.cos(angle), angle of index k: cos is even.
SpeedCos(k) == CosTable[Abs(k) + 1]

\* BALL_SPEED * math.sin(angle), angle of index k: sin is odd.
SpeedSin(k) == IF k >= 0 THEN SinTable[k + 1] ELSE -SinTable[(-k) + 1]

\* ------------------------------------------------------------ pygame.Rect
centery(y, h) == y + h \div 2

\* Rect.colliderect: the two rectangles overlap (touching edges do not).
colliderect(ax, ay, aw, ah, bx, by, bw, bh) ==
    /\ ax < bx + bw
    /\ ay < by + bh
    /\ ax + aw > bx
    /\ ay + ah > by

\* Mutant of clamp_axis: the far edge is clamped, the near edge is not.
clamp_axis_far_only(p, size, limit) ==
    IF p + size > limit THEN limit - size ELSE p

\* Rect.clamp_ip along one axis: move the span [p, p + size) inside [0, limit).
clamp_axis(p, size, limit) ==
    IF size >= limit THEN limit \div 2 - size \div 2
    ELSE IF p < 0 THEN 0
    ELSE IF p + size > limit THEN limit - size
    ELSE p

\* rect.clamp_ip(pygame.Rect(0, 0, WIDTH, HEIGHT)) of a paddle.
clamp_ip(p) ==
    [x |-> clamp_axis(p.x, PADDLE_WIDTH, WIDTH),
     y |-> clamp_axis(p.y, PADDLE_HEIGHT, HEIGHT)]

\* ------------------------------------------------------------ Paddle
Paddle(x, y) == [x |-> x, y |-> y]

\* Mutant of move_ai: no band around the target, the paddle moves whenever its
\* centre is off the target.
move_ai_no_band(p, ball_y) ==
    LET c == centery(p.y, PADDLE_HEIGHT)
        moved == IF c < ball_y THEN [p EXCEPT !.y = p.y + PADDLE_SPEED]
                 ELSE IF c > ball_y THEN [p EXCEPT !.y = p.y - PADDLE_SPEED]
                 ELSE p
    IN  clamp_ip(moved)

move_ai(p, ball_y) ==
    LET c == centery(p.y, PADDLE_HEIGHT)
        moved == IF c < ball_y - TRACKING_BAND THEN [p EXCEPT !.y = p.y + PADDLE_SPEED]
                 ELSE IF c > ball_y + TRACKING_BAND THEN [p EXCEPT !.y = p.y - PADDLE_SPEED]
                 ELSE p
    IN  clamp_ip(moved)

move_mouse(p, mouse_y) ==
    clamp_ip([p EXCEPT !.y = mouse_y - PADDLE_HEIGHT \div 2])

\* ------------------------------------------------------------ Ball
\* Mutant of reset: the rectangle's top-left corner is put on the centre.
reset_topleft(k, direction) ==
    [x |-> WIDTH \div 2,
     y |-> HEIGHT \div 2,
     vx |-> direction * SpeedCos(k),
     vy |-> SpeedSin(k)]

\* Ball.reset with the drawn angle (index k) and direction: the rectangle is
\* centred on (WIDTH // 2, HEIGHT // 2).
reset(k, direction) ==
    [x |-> WIDTH \div 2 - BALL_SIZE \div 2,
     y |-> HEIGHT \div 2 - BALL_SIZE \div 2,
     vx |-> direction * SpeedCos(k),
     vy |-> SpeedSin(k)]

\* Ball.move: rect.x += vx, rect.y += vy, each sum cut to an integer.
move(b) ==
    [b EXCEPT !.x = TruncTowardZero(b.x * Scale + b.vx),
              !.y = TruncTowardZero(b.y * Scale + b.vy)]

bounce_y(b) == [b EXCEPT !.vy = -b.vy]

\* ------------------------------------------------------------ events
\* The events of the queue, a click by the rectangle its position is in.
Events ==
    {"QUIT", "CLICK_START", "CLICK_QUIT", "CLICK_ELSE", "KEY_Y", "KEY_N", "KEY_OTHER"}

\* What one pygame.event.get() can return: the queued events, in order.
Batches == UNION {[1..n -> Events] : n \in 0..MaxBatch}

HasClose(batch) == \E i \in 1..Len(batch) : batch[i] = "QUIT"

\* The event loop of main_menu over one batch, from event i on: the first event
\* that leaves the menu decides, and the events after it are dropped.
RECURSIVE main_menu_events(_, _)
main_menu_events(batch, i) ==
    IF i > Len(batch) THEN "none"
    ELSE IF batch[i] = "QUIT" THEN "window_close"
    ELSE IF batch[i] = "CLICK_START" THEN "start_click"
    ELSE IF batch[i] = "CLICK_QUIT" THEN "quit_click"
    ELSE main_menu_events(batch, i + 1)

\* The event loop of game_over_prompt over one batch.
RECURSIVE game_over_prompt_events(_, _)
game_over_prompt_events(batch, i) ==
    IF i > Len(batch) THEN "none"
    ELSE IF batch[i] = "QUIT" THEN "window_close"
    ELSE IF batch[i] = "KEY_Y" THEN "key_y"
    ELSE IF batch[i] = "KEY_N" THEN "key_n"
    ELSE game_over_prompt_events(batch, i + 1)

\* Mutant of game_events: only the first event of the batch is looked at.
game_events_first_only(batch, i) ==
    IF i > Len(batch) THEN "none"
    ELSE IF batch[i] = "QUIT" THEN "window_close"
    ELSE "none"

\* The event loop of game over one batch: only a window-close is looked at.
RECURSIVE game_events(_, _)
game_events(batch, i) ==
    IF i > Len(batch) THEN "none"
    ELSE IF batch[i] = "QUIT" THEN "window_close"
    ELSE game_events(batch, i + 1)

\* The polls of each loop: what the batch makes the loop do, and whether the
\* batch held a window-close event.
MenuPolls == {<<main_menu_events(b, 1), HasClose(b)>> : b \in Batches}

PromptPolls == {<<game_over_prompt_events(b, 1), HasClose(b)>> : b \in Batches}

GamePolls == {<<game_events(b, 1), HasClose(b)>> : b \in Batches}

\* ------------------------------------------------------------ state
VARIABLES
    screen,         \* "Menu", "Match", "GameOverPrompt" or "Terminated"
    left_paddle,    \* left_paddle.rect of game(): [x, y]
    right_paddle,   \* right_paddle.rect of game(): [x, y]
    ball,           \* ball of game(): rect [x, y] and velocity [vx, vy]
    left_score,
    right_score,
    last,           \* what the last match tick did (history)
    cause,          \* what made the last step leave or keep its screen (history)
    closeInBatch,   \* the last polled batch held a window-close event (history)
    prompts,        \* how often this call of game() entered game_over_prompt (history)
    pygame_quits,   \* how often pygame.quit() has been called
    tone            \* SoundEngine._generate_tone: its arguments and its buffer so far

vars ==
    <<screen, left_paddle, right_paddle, ball, left_score, right_score,
      last, cause, closeInBatch, prompts, pygame_quits, tone>>

matchVars == <<left_paddle, right_paddle, ball, left_score, right_score>>

\* No match tick: nothing moved, nothing bounced, nothing scored, no sound.
\*   polled         game()'s loop polled its events
\*   ran            the tick's updates ran
\*   wall           bounce_y was applied
\*   wallY, wallVy  the ball's top and vy after the wall-collision step
\*   overL, overR   the ball overlapped the paddle when its collision was tested
\*   inVx           the ball's vx before the paddle collisions
\*   hitL, hitR     the paddle's bounce was applied
\*   diff           ball.centery - paddle.centery of the bounce
\*   exitL, exitR   the edge's scoring branch was taken, exitX: the ball's left then
\*   sounds         the sounds played, in order
NoTick ==
    [polled |-> FALSE, ran |-> FALSE, wall |-> FALSE, wallY |-> 0, wallVy |-> 0,
     overL |-> FALSE, overR |-> FALSE, inVx |-> 0,
     hitL |-> FALSE, hitR |-> FALSE, diff |-> 0,
     exitL |-> FALSE, exitR |-> FALSE, exitX |-> 0, sounds |-> << >>]

\* Outside a call of game() there are no paddles, ball or scores: the model
\* keeps these values for them.
NoPaddle == Paddle(0, 0)

NoBall == [x |-> 0, y |-> 0, vx |-> 0, vy |-> 0]

\* No call of _generate_tone is under way.
NoTone ==
    [duration |-> 0, volume |-> 0, n_samples |-> 0, len |-> 0, int_val |-> 0,
     returned |-> FALSE]

\* game() returns: its locals are gone.
Discard ==
    /\ left_paddle' = NoPaddle
    /\ right_paddle' = NoPaddle
    /\ ball' = NoBall
    /\ left_score' = 0
    /\ right_score' = 0

Init ==
    /\ screen = "Menu"
    /\ left_paddle = NoPaddle
    /\ right_paddle = NoPaddle
    /\ ball = NoBall
    /\ left_score = 0
    /\ right_score = 0
    /\ last = NoTick
    /\ cause = "none"
    /\ closeInBatch = FALSE
    /\ prompts = 0
    /\ pygame_quits = 0
    /\ tone = NoTone

\* ------------------------------------------------------------ main_menu
\* Mutant of StartMatch: the paddles are not created anew.
StartMatch_old_paddles(k, direction) ==
    /\ UNCHANGED <<left_paddle, right_paddle>>
    /\ ball' = reset(k, direction)
    /\ left_score' = 0
    /\ right_score' = 0
    /\ prompts' = 0

\* The start of game(): the paddles, the ball (Ball.__init__ calls reset) and
\* the scores are created.
StartMatch(k, direction) ==
    /\ left_paddle' = Paddle(PADDLE_MARGIN, HEIGHT \div 2 - PADDLE_HEIGHT \div 2)
    /\ right_paddle' =
           Paddle(WIDTH - PADDLE_MARGIN - PADDLE_WIDTH, HEIGHT \div 2 - PADDLE_HEIGHT \div 2)
    /\ ball' = reset(k, direction)
    /\ left_score' = 0
    /\ right_score' = 0
    /\ prompts' = 0

\* One iteration of main_menu's loop that stays in the menu.
MenuIdle ==
    /\ screen = "Menu"
    /\ \E p \in MenuPolls :
        /\ p[1] = "none"
        /\ closeInBatch' = p[2]
    /\ cause' = "none"
    /\ last' = NoTick
    /\ UNCHANGED <<screen, matchVars, prompts, pygame_quits, tone>>

\* A click on START: main_menu returns "game" and main calls game().
MenuStart ==
    /\ screen = "Menu"
    /\ \E p \in MenuPolls :
        /\ p[1] = "start_click"
        /\ closeInBatch' = p[2]
    /\ \E k \in ResetAngles, direction \in {-1, 1} : StartMatch(k, direction)
    /\ screen' = "Match"
    /\ cause' = "start_click"
    /\ last' = NoTick
    /\ UNCHANGED <<pygame_quits, tone>>

\* Mutant of menu_exit: the menu's exit also runs main's pygame.quit().
menu_exit_through_main(quits) == quits + 2

\* main_menu's exits: pygame.quit(), then sys.exit(), whose SystemExit leaves
\* main_menu and main's loop at once: main's own pygame.quit() is not reached.
menu_exit(quits) == quits + 1

\* main after its loop: pygame.quit(), sys.exit().
main_exit(quits) == quits + 1

\* A window-close or a click on QUIT: pygame.quit(), sys.exit().
MenuExit ==
    /\ screen = "Menu"
    /\ \E p \in MenuPolls :
        /\ p[1] \in {"window_close", "quit_click"}
        /\ cause' = p[1]
        /\ closeInBatch' = p[2]
    /\ screen' = "Terminated"
    /\ last' = NoTick
    /\ pygame_quits' = menu_exit(pygame_quits)
    /\ UNCHANGED <<matchVars, prompts, tone>>

\* ------------------------------------------------------------ game: one tick
\* Wall collisions: the ball's top at or above 0, or its bottom at or below HEIGHT.
touches_wall(b) == b.y <= 0 \/ b.y + BALL_SIZE >= HEIGHT

\* The ball overlaps paddle p.
overlaps(b, p) ==
    colliderect(b.x, b.y, BALL_SIZE, BALL_SIZE, p.x, p.y, PADDLE_WIDTH, PADDLE_HEIGHT)

\* Mutant of hits_left: the overlap is not tested.
hits_left_anywhere(b, p) == b.vx < 0

hits_left(b, p) == overlaps(b, p) /\ b.vx < 0

hits_right(b, p) == overlaps(b, p) /\ b.vx > 0

\* ball.rect.centery - paddle.rect.centery, the numerator of the offset.
hit_diff(b, p) == centery(b.y, BALL_SIZE) - centery(p.y, PADDLE_HEIGHT)

\* Mutant of hit_offset: the offset is not clamped.
hit_offset_unclamped(b, p) == hit_diff(b, p)

\* offset = (ball.centery - paddle.centery) / (PADDLE_HEIGHT / 2), clamped to
\* [-1, 1]; kept as the angle index offset * Steps, clamped to [-Steps, Steps].
hit_offset(b, p) == Max(-Steps, Min(Steps, hit_diff(b, p)))

\* Mutant of left_bounce: the full speed along x, whatever the angle.
left_bounce_full_vx(b, p) ==
    [x |-> p.x + PADDLE_WIDTH + 1,
     y |-> b.y,
     vx |-> BALL_SPEED * Scale,
     vy |-> SpeedSin(hit_offset(b, p))]

\* Mutant of left_bounce: the horizontal direction is not flipped.
left_bounce_no_flip(b, p) ==
    [x |-> p.x + PADDLE_WIDTH + 1,
     y |-> b.y,
     vx |-> -SpeedCos(hit_offset(b, p)),
     vy |-> SpeedSin(hit_offset(b, p))]

\* Mutant of left_bounce: the ball is not shifted outside the paddle.
left_bounce_no_shift(b, p) ==
    [x |-> b.x,
     y |-> b.y,
     vx |-> SpeedCos(hit_offset(b, p)),
     vy |-> SpeedSin(hit_offset(b, p))]

\* The left paddle returns the ball: new velocity to the right, ball shifted
\* outside the paddle.
left_bounce(b, p) ==
    [x |-> p.x + PADDLE_WIDTH + 1,
     y |-> b.y,
     vx |-> SpeedCos(hit_offset(b, p)),
     vy |-> SpeedSin(hit_offset(b, p))]

\* The right paddle returns the ball: rect.right = paddle.left - 1.
right_bounce(b, p) ==
    [x |-> p.x - 1 - BALL_SIZE,
     y |-> b.y,
     vx |-> -SpeedCos(hit_offset(b, p)),
     vy |-> SpeedSin(hit_offset(b, p))]

\* Mutant of exits_left: the check is off by the ball's size.
exits_left_early(b) == b.x - BALL_SIZE <= 0

\* The scoring checks.
exits_left(b) == b.x <= 0

\* Mutant of exits_right: the right edge is taken to be the right paddle's face.
exits_right_at_paddle(b) == b.x + BALL_SIZE >= WIDTH - PADDLE_MARGIN - PADDLE_WIDTH - 1

exits_right(b) == b.x + BALL_SIZE >= WIDTH

\* Mutant of add_point: a point counted twice.
add_point_twice(score) == score + 2

add_point(score) == score + 1

\* Mutant of game_over: the threshold compared with > instead of >=.
game_over_late(ls, rs) == ls > WIN_SCORE \/ rs > WIN_SCORE

\* The game-over check.
game_over(ls, rs) == ls >= WIN_SCORE \/ rs >= WIN_SCORE

\* The end of a tick: the game-over check enters game_over_prompt, or the loop
\* draws and goes on.
EndTick(lp, rp, b, ls, rs, did) ==
    /\ left_paddle' = lp
    /\ right_paddle' = rp
    /\ ball' = b
    /\ left_score' = ls
    /\ right_score' = rs
    /\ last' = did
    /\ UNCHANGED <<pygame_quits, tone>>
    /\ IF game_over(ls, rs)
       THEN /\ screen' = "GameOverPrompt"
            /\ prompts' = prompts + 1
            /\ cause' = "game_over"
       ELSE /\ screen' = "Match"
            /\ prompts' = prompts
            /\ cause' = "none"

\* The right-edge scoring check and what follows it.
ScoreRight(lp, rp, b, ls, rs, did) ==
    IF exits_right(b)
    THEN \E k \in ResetAngles, direction \in {-1, 1} :
            EndTick(lp, rp, reset(k, direction), add_point(ls), rs,
                    [did EXCEPT !.exitR = TRUE, !.exitX = b.x,
                                !.sounds = Append(@, "score")])
    ELSE EndTick(lp, rp, b, ls, rs, did)

\* The left-edge scoring check and what follows it.
ScoreLeft(lp, rp, b, ls, rs, did) ==
    IF exits_left(b)
    THEN \E k \in ResetAngles, direction \in {-1, 1} :
            ScoreRight(lp, rp, reset(k, direction), ls, add_point(rs),
                       [did EXCEPT !.exitL = TRUE, !.exitX = b.x,
                                   !.sounds = Append(@, "score")])
    ELSE ScoreRight(lp, rp, b, ls, rs, did)

\* One iteration of game()'s loop with no window-close in the batch: the
\* paddles move, the ball moves, the collisions and the scoring are handled.
MatchTick ==
    /\ screen = "Match"
    /\ \E p \in GamePolls :
        /\ p[1] = "none"
        /\ closeInBatch' = p[2]
    /\ \E mouse_y \in MouseYs :
        LET rp == move_mouse(right_paddle, mouse_y)
            lp == move_ai(left_paddle, centery(ball.y, BALL_SIZE))
            b1 == move(ball)
            wall == touches_wall(b1)
            b2 == IF wall THEN bounce_y(b1) ELSE b1
            hitL == hits_left(b2, lp)
            b3 == IF hitL THEN left_bounce(b2, lp) ELSE b2
            hitR == hits_right(b3, rp)
            b4 == IF hitR THEN right_bounce(b3, rp) ELSE b3
            did == [NoTick EXCEPT
                       !.polled = TRUE, !.ran = TRUE, !.wall = wall, !.wallY = b2.y, !.wallVy = b2.vy,
                       !.overL = overlaps(b2, lp), !.overR = overlaps(b3, rp),
                       !.inVx = b2.vx, !.hitL = hitL, !.hitR = hitR,
                       !.diff = IF hitR THEN hit_diff(b3, rp)
                                ELSE IF hitL THEN hit_diff(b2, lp) ELSE 0,
                       !.sounds = (IF hitL THEN <<"hit_paddle">> ELSE << >>)
                                  \o (IF hitR THEN <<"hit_paddle">> ELSE << >>)]
        IN  ScoreLeft(lp, rp, b4, left_score, right_score, did)

\* A window-close during the match: game() returns False before the tick's
\* updates, and main leaves its loop.
MatchClose ==
    /\ screen = "Match"
    /\ \E p \in GamePolls :
        /\ p[1] = "window_close"
        /\ cause' = p[1]
        /\ closeInBatch' = p[2]
    /\ screen' = "Terminated"
    /\ last' = [NoTick EXCEPT !.polled = TRUE]
    /\ Discard
    /\ pygame_quits' = main_exit(pygame_quits)
    /\ UNCHANGED <<prompts, tone>>

\* ------------------------------------------------------------ game_over_prompt
\* Mutant of after_prompt: a restart calls game() again without the menu.
after_prompt_rematch(restart) == IF restart THEN "Match" ELSE "Terminated"

\* Mutant of after_prompt: game()'s loop goes on after the prompt.
after_prompt_continue(restart) == "Match"

\* Where main goes when game() returns what game_over_prompt returned.
after_prompt(restart) == IF restart THEN "Menu" ELSE "Terminated"

\* One iteration of the prompt's loop that keeps waiting.
PromptIdle ==
    /\ screen = "GameOverPrompt"
    /\ \E p \in PromptPolls :
        /\ p[1] = "none"
        /\ closeInBatch' = p[2]
    /\ cause' = "none"
    /\ last' = NoTick
    /\ UNCHANGED <<screen, matchVars, prompts, pygame_quits, tone>>

\* Key y returns True, key n or a window-close returns False.
PromptAnswer ==
    /\ screen = "GameOverPrompt"
    /\ \E p \in PromptPolls :
        /\ p[1] \in {"key_y", "key_n", "window_close"}
        /\ screen' = after_prompt(p[1] = "key_y")
        /\ cause' = p[1]
        /\ closeInBatch' = p[2]
        /\ pygame_quits' = IF p[1] = "key_y" THEN pygame_quits ELSE main_exit(pygame_quits)
    /\ last' = NoTick
    /\ Discard
    /\ UNCHANGED <<prompts, tone>>

\* ------------------------------------------------------------ specification
Next ==
    \/ MenuIdle
    \/ MenuStart
    \/ MenuExit
    \/ MatchTick
    \/ MatchClose
    \/ PromptIdle
    \/ PromptAnswer

Spec == Init /\ [][Next]_vars

\* ------------------------------------------------------------ the paddle alone
\* The arguments move_ai and move_mouse are called with: every height of the
\* window, heights above and below it, and two far ones.
PaddleArgs == (-60 .. HEIGHT + 60) \cup {-100000, 100000}

\* A paddle of a running match, anywhere inside the playfield.
InitPaddle ==
    /\ screen = "Match"
    /\ \E y \in 0 .. HEIGHT - PADDLE_HEIGHT : left_paddle = Paddle(PADDLE_MARGIN, y)
    /\ right_paddle =
           Paddle(WIDTH - PADDLE_MARGIN - PADDLE_WIDTH, HEIGHT \div 2 - PADDLE_HEIGHT \div 2)
    /\ ball = reset(0, 1)
    /\ left_score = 0
    /\ right_score = 0
    /\ last = NoTick
    /\ cause = "none"
    /\ closeInBatch = FALSE
    /\ prompts = 0
    /\ pygame_quits = 0
    /\ tone = NoTone

\* A call of Paddle.move_ai on the paddle.
CallMoveAi ==
    /\ \E ball_y \in PaddleArgs : left_paddle' = move_ai(left_paddle, ball_y)
    /\ cause' = "move_ai"
    /\ UNCHANGED <<screen, right_paddle, ball, left_score, right_score, last,
                   closeInBatch, prompts, pygame_quits, tone>>

\* A call of Paddle.move_mouse on the paddle.
CallMoveMouse ==
    /\ \E mouse_y \in PaddleArgs : left_paddle' = move_mouse(left_paddle, mouse_y)
    /\ cause' = "move_mouse"
    /\ UNCHANGED <<screen, right_paddle, ball, left_score, right_score, last,
                   closeInBatch, prompts, pygame_quits, tone>>

NextPaddle == CallMoveAi \/ CallMoveMouse

SpecPaddle == InitPaddle /\ [][NextPaddle]_vars

\* ------------------------------------------------------------ the AI paddle and the ball
\* The tops the ball's rectangle is placed at: from above the top wall to below
\* the bottom wall, 15 pixels apart.
BallTops == {15 * i - 8 : i \in 0 .. 40}

\* The AI paddle anywhere inside the playfield, the ball at any of the heights.
InitAi ==
    /\ screen = "Match"
    /\ \E y \in 0 .. HEIGHT - PADDLE_HEIGHT : left_paddle = Paddle(PADDLE_MARGIN, y)
    /\ right_paddle =
           Paddle(WIDTH - PADDLE_MARGIN - PADDLE_WIDTH, HEIGHT \div 2 - PADDLE_HEIGHT \div 2)
    /\ \E top \in BallTops : ball = [reset(0, 1) EXCEPT !.y = top]
    /\ left_score = 0
    /\ right_score = 0
    /\ last = NoTick
    /\ cause = "none"
    /\ closeInBatch = FALSE
    /\ prompts = 0
    /\ pygame_quits = 0
    /\ tone = NoTone

\* game()'s call left_paddle.move_ai(ball.rect.centery).
TrackBall ==
    /\ left_paddle' = move_ai(left_paddle, centery(ball.y, BALL_SIZE))
    /\ cause' = "move_ai"
    /\ UNCHANGED <<screen, right_paddle, ball, left_score, right_score, last,
                   closeInBatch, prompts, pygame_quits, tone>>

\* The ball is at another height before the next call.
PlaceBall ==
    /\ \E top \in BallTops : ball' = [ball EXCEPT !.y = top]
    /\ cause' = "ball"
    /\ UNCHANGED <<screen, left_paddle, right_paddle, left_score, right_score, last,
                   closeInBatch, prompts, pygame_quits, tone>>

NextAi == TrackBall \/ PlaceBall

SpecAi == InitAi /\ [][NextAi]_vars

\* ------------------------------------------------------------ the tone generator
\* self.sample_rate.
SAMPLE_RATE == 22050

\* The factor 32767 of a sample, the largest signed 16-bit value.
PCM_PEAK == 32767

\* Durations are kept in units of 1 / DurationUnit second.
DurationUnit == 10000

\* Volumes are kept in units of 1 / VolumeUnit.
VolumeUnit == 10

\* int(n / d): the quotient cut toward zero.
int(n, d) == IF n >= 0 THEN n \div d ELSE -((-n) \div d)

\* The arguments of hit_paddle's call: 0.1 s at volume 0.2 (440 Hz).
HitPaddleArgs == [duration |-> 1000, volume |-> 2]

\* The arguments of score's call: 0.2 s at volume 0.3 (220 Hz).
ScoreArgs == [duration |-> 2000, volume |-> 3]

\* The calls of _generate_tone: the two the game makes, and short tones of
\* 0.0003 s and 0.0007 s at volumes 0.2, 0.3 and 1.
ToneArgs ==
    {HitPaddleArgs, ScoreArgs}
        \cup [duration : {3, 7}, volume : {2, 3, VolumeUnit}]

\* math.sin(2 * math.pi * frequency * t) is some value in [-1, 1], in units of
\* 1 / Scale: the extremes, values next to them, the middle ones and 0. The
\* frequency only chooses among them.
SineValues == {-Scale, 1 - Scale, -(Scale \div 2), -1, 0, 1, Scale \div 2, Scale - 1, Scale}

\* Mutant of n_samples: one sample too many.
n_samples_one_more(duration) == int(SAMPLE_RATE * duration, DurationUnit) + 1

\* n_samples = int(self.sample_rate * duration).
n_samples(duration) == int(SAMPLE_RATE * duration, DurationUnit)

\* int_val = int(volume * 32767 * value).
int_val(volume, value) == int(volume * PCM_PEAK * value, VolumeUnit * Scale)

\* No tone is being generated; the match around the sound engine is at rest.
InitTone ==
    /\ screen = "Match"
    /\ left_paddle = Paddle(PADDLE_MARGIN, HEIGHT \div 2 - PADDLE_HEIGHT \div 2)
    /\ right_paddle =
           Paddle(WIDTH - PADDLE_MARGIN - PADDLE_WIDTH, HEIGHT \div 2 - PADDLE_HEIGHT \div 2)
    /\ ball = reset(0, 1)
    /\ left_score = 0
    /\ right_score = 0
    /\ last = NoTick
    /\ cause = "none"
    /\ closeInBatch = FALSE
    /\ prompts = 0
    /\ pygame_quits = 0
    /\ tone = NoTone

\* _generate_tone is called: n_samples is computed, samples is empty.
CallGenerateTone ==
    /\ tone = NoTone \/ tone.returned
    /\ \E args \in ToneArgs :
        tone' = [duration |-> args.duration, volume |-> args.volume,
                 n_samples |-> n_samples(args.duration), len |-> 0, int_val |-> 0,
                 returned |-> FALSE]
    /\ cause' = "_generate_tone"
    /\ UNCHANGED <<screen, matchVars, last, closeInBatch, prompts, pygame_quits>>

\* One iteration of the loop over range(n_samples): a sample is appended.
AppendSample ==
    /\ ~tone.returned
    /\ tone.len < tone.n_samples
    /\ \E value \in SineValues :
        tone' = [tone EXCEPT !.len = @ + 1, !.int_val = int_val(tone.volume, value)]
    /\ cause' = "append"
    /\ UNCHANGED <<screen, matchVars, last, closeInBatch, prompts, pygame_quits>>

\* The loop is over: the samples become the sound's buffer and it is returned.
ReturnTone ==
    /\ tone # NoTone
    /\ ~tone.returned
    /\ tone.len = tone.n_samples
    /\ tone' = [tone EXCEPT !.returned = TRUE]
    /\ cause' = "return"
    /\ UNCHANGED <<screen, matchVars, last, closeInBatch, prompts, pygame_quits>>

NextTone == CallGenerateTone \/ AppendSample \/ ReturnTone

SpecTone == InitTone /\ [][NextTone]_vars

\* ------------------------------------------------------------ claims
\* A step that is a match tick: game()'s loop ran its updates.
IsMatchTick == screen = "Match" /\ screen' \in {"Match", "GameOverPrompt"}

\* C1: in every match tick neither score decreases and left_score + right_score
\* grows by 0 or 1; a ball exit at the left edge adds exactly 1 to right_score
\* and nothing to left_score, a ball exit at the right edge adds exactly 1 to
\* left_score and nothing to right_score, the two scoring checks never both
\* fire in one tick, and a tick without a ball exit leaves both scores alone.
C1_ScoreStep ==
    [][IsMatchTick =>
        /\ left_score' >= left_score
        /\ right_score' >= right_score
        /\ (left_score' + right_score') - (left_score + right_score) \in {0, 1}
        /\ last'.exitL => (right_score' = right_score + 1 /\ left_score' = left_score)
        /\ last'.exitR => (left_score' = left_score + 1 /\ right_score' = right_score)
        /\ ~(last'.exitL /\ last'.exitR)
        /\ (~last'.exitL /\ ~last'.exitR) => UNCHANGED <<left_score, right_score>>
      ]_vars

\* A tick in which the ball left at the left edge has just given the right side
\* a point, in a match where both sides have scored.
C1_Witness == last.exitL /\ right_score >= 1 /\ left_score >= 1

\* C2: at the start of every match tick both scores are in 0..4; whenever the
\* game-over prompt is up exactly one score is 5 and the other at most 4; no
\* score exceeds 5; and the tick in which a score becomes 5 enters the prompt.
C2_MatchEndsAtFive ==
    /\ [](/\ screen = "Match" => (left_score \in 0..4 /\ right_score \in 0..4)
          /\ screen = "GameOverPrompt" =>
                \/ (left_score = WIN_SCORE /\ right_score \in 0..4)
                \/ (right_score = WIN_SCORE /\ left_score \in 0..4)
          /\ left_score <= WIN_SCORE
          /\ right_score <= WIN_SCORE)
    /\ [][(IsMatchTick /\ (left_score' = WIN_SCORE \/ right_score' = WIN_SCORE))
            => screen' = "GameOverPrompt"]_vars

\* The prompt is up after the left side's fifth point, the right side having
\* scored as well.
C2_Witness ==
    screen = "GameOverPrompt" /\ left_score = WIN_SCORE /\ right_score >= 1

\* C3: the screen flow starts in Menu and changes screen only by Menu->Match
\* (click on START), Menu->Terminated (click on QUIT or window-close),
\* Match->GameOverPrompt (a score reached 5), Match->Terminated (window-close),
\* GameOverPrompt->Menu (key y), GameOverPrompt->Terminated (key n or
\* window-close); Terminated has no successor.
C3_ScreenFlow ==
    /\ screen = "Menu"
    /\ [](screen \in {"Menu", "Match", "GameOverPrompt", "Terminated"})
    /\ [][screen' # screen =>
            \/ /\ screen = "Menu" /\ screen' = "Match"
               /\ cause' = "start_click"
            \/ /\ screen = "Menu" /\ screen' = "Terminated"
               /\ cause' \in {"quit_click", "window_close"}
            \/ /\ screen = "Match" /\ screen' = "GameOverPrompt"
               /\ cause' = "game_over"
               /\ (left_score' = WIN_SCORE \/ right_score' = WIN_SCORE)
            \/ /\ screen = "Match" /\ screen' = "Terminated"
               /\ cause' = "window_close"
            \/ /\ screen = "GameOverPrompt" /\ screen' = "Menu"
               /\ cause' = "key_y"
            \/ /\ screen = "GameOverPrompt" /\ screen' = "Terminated"
               /\ cause' \in {"key_n", "window_close"}
      ]_vars
    /\ [][screen # "Terminated"]_vars

\* The menu is up again after key y answered the game-over prompt.
C3_Witness == screen = "Menu" /\ cause = "key_y"

\* C4: whenever the batch a loop polled held a window-close event, whatever
\* precedes it in the batch, the program is Terminated after that iteration.
C4_CloseAlwaysTerminates == closeInBatch => screen = "Terminated"

\* C5: after every call of move_ai or move_mouse, whatever the argument, the
\* paddle's top y is in [0, HEIGHT - PADDLE_HEIGHT].
C5_PaddleInside ==
    cause \in {"move_ai", "move_mouse"} =>
        /\ left_paddle.y >= 0
        /\ left_paddle.y <= HEIGHT - PADDLE_HEIGHT

\* move_mouse has put the paddle against the bottom of the playfield.
C5_Witness == cause = "move_mouse" /\ left_paddle.y = HEIGHT - PADDLE_HEIGHT

\* A match is running or has just ended: game()'s ball and paddles exist.
InGame == screen \in {"Match", "GameOverPrompt"}

\* The ball is as Ball.reset left it: the match has just started, or a point
\* was scored in the last tick.
JustReset == cause = "start_click" \/ last.exitL \/ last.exitR

SpeedSquared == ball.vx * ball.vx + ball.vy * ball.vy

\* C6 as stated: in every state of a match vx^2 + vy^2 is exactly BALL_SPEED^2,
\* and after reset |vy| <= BALL_SPEED * sin(MAX_ANGLE).
C6_SpeedExact ==
    InGame =>
        /\ SpeedSquared = (BALL_SPEED * Scale) * (BALL_SPEED * Scale)
        /\ JustReset => Abs(ball.vy) <= SpeedSin(Steps)

\* C6 amended: in every state of a match vx^2 + vy^2 is BALL_SPEED^2 up to the
\* rounding of vx and vy (each within half a unit of the exact value, so the
\* sum of squares within 2 * BALL_SPEED units), and after reset
\* |vy| <= BALL_SPEED * sin(MAX_ANGLE).
C6_SpeedWithinRounding ==
    InGame =>
        /\ Abs(SpeedSquared - (BALL_SPEED * Scale) * (BALL_SPEED * Scale))
              <= 2 * BALL_SPEED * Scale
        /\ JustReset => Abs(ball.vy) <= SpeedSin(Steps)

\* The left paddle has returned the ball away from its centre line, after a
\* wall bounce earlier in the same tick.
C6_Witness == InGame /\ last.hitL /\ last.wall /\ ball.vy # 0

\* C7: right after a left-paddle bounce vx > 0 and right after a right-paddle
\* bounce vx < 0, wherever on the paddle the ball hit.
C7_BounceAway ==
    /\ last.hitL => ball.vx > 0
    /\ last.hitR => ball.vx < 0

\* The right paddle has returned the ball from its very edge (the hit offset
\* clamped to -1).
C7_Witness ==
    /\ last.hitR
    /\ centery(ball.y, BALL_SIZE) - centery(right_paddle.y, PADDLE_HEIGHT) <= -Steps

\* C8: after a left-paddle bounce ball.left = left_paddle.right + 1, after a
\* right-paddle bounce ball.right = right_paddle.left - 1, and the ball does
\* not overlap the struck paddle at the end of the tick; a ball arriving with
\* velocity (-7, 0) at the height of the left paddle's centre leaves with
\* velocity exactly (7, 0) and its left edge at paddle.right + 1.
C8_FlushOutside ==
    /\ [](/\ last.hitL => /\ ball.x = left_paddle.x + PADDLE_WIDTH + 1
                          /\ ~overlaps(ball, left_paddle)
          /\ last.hitR => /\ ball.x + BALL_SIZE = right_paddle.x - 1
                          /\ ~overlaps(ball, right_paddle))
    /\ [][(/\ IsMatchTick
           /\ ball.vx = -BALL_SPEED * Scale
           /\ ball.vy = 0
           /\ last'.hitL
           /\ centery(ball'.y, BALL_SIZE) = centery(left_paddle'.y, PADDLE_HEIGHT))
          => /\ ball'.vx = BALL_SPEED * Scale
             /\ ball'.vy = 0
             /\ ball'.x = left_paddle'.x + PADDLE_WIDTH + 1]_vars

\* The left paddle has returned the ball at the height of its centre, straight
\* to the right.
C8_Witness ==
    /\ last.hitL
    /\ centery(ball.y, BALL_SIZE) = centery(left_paddle.y, PADDLE_HEIGHT)
    /\ ball.vx = BALL_SPEED * Scale
    /\ ball.vy = 0

\* C9: each call of game() enters game_over_prompt at most once; it is entered
\* in the tick in which a score reaches 5; and once it has been entered no
\* further tick of that match runs.
C9_PromptOnce ==
    /\ [](/\ prompts <= 1
          /\ screen = "GameOverPrompt" => prompts = 1)
    /\ [][prompts' = prompts + 1 =>
            /\ IsMatchTick
            /\ screen' = "GameOverPrompt"
            /\ \/ (left_score = WIN_SCORE - 1 /\ left_score' = WIN_SCORE)
               \/ (right_score = WIN_SCORE - 1 /\ right_score' = WIN_SCORE)]_vars
    /\ [][prompts >= 1 => ~IsMatchTick]_vars
    /\ [][screen = "GameOverPrompt" => (screen' # "Match" /\ prompts' = prompts)]_vars

\* The prompt of a match has been answered with key y: the menu is up, and the
\* match entered its prompt once.
C9_Witness == screen = "Menu" /\ cause = "key_y" /\ prompts = 1

\* C10 as stated: a point is given only when the whole ball is beyond the edge,
\* ball.right <= 0 for right_score and ball.left >= WIDTH for left_score.
C10_FullExit ==
    /\ last.exitL => last.exitX + BALL_SIZE <= 0
    /\ last.exitR => last.exitX >= WIDTH

\* C10 amended: a point is given only when the ball's leading edge has reached
\* the edge, ball.left <= 0 for right_score and ball.right >= WIDTH for
\* left_score, and a tick changes a score only by such an exit.
C10_EdgeReached ==
    /\ [](/\ last.exitL => last.exitX <= 0
          /\ last.exitR => last.exitX + BALL_SIZE >= WIDTH)
    /\ [][IsMatchTick =>
            /\ right_score' # right_score => last'.exitL
            /\ left_score' # left_score => last'.exitR]_vars

\* The left side got a point for a ball that was still partly inside the
\* playfield: its right edge beyond WIDTH, its left edge not.
C10_Witness ==
    /\ last.exitR
    /\ last.exitX + BALL_SIZE >= WIDTH
    /\ last.exitX < WIDTH

\* C11: on every path to termination (QUIT click or window-close in the menu,
\* window-close during a match, key n or window-close in the prompt)
\* pygame.quit() has run exactly once when the program is terminated, it has not
\* run on any other screen, and no loop iteration of any screen runs after it.
C11_QuitOnce ==
    /\ [](screen = "Terminated" => pygame_quits = 1)
    /\ [](screen # "Terminated" => pygame_quits = 0)
    /\ [][pygame_quits = 0 /\ pygame_quits' <= 1]_vars

\* The program ended from the prompt by key n, after pygame.quit().
C11_Witness ==
    /\ screen = "Terminated"
    /\ cause = "key_n"
    /\ pygame_quits = 1

\* Python's round(n / d) for n >= 0: to the nearest integer, a tie to the even one.
RoundHalfEven(n, d) ==
    LET q == n \div d
        r == n % d
    IN  IF 2 * r > d \/ (2 * r = d /\ q % 2 = 1) THEN q + 1 ELSE q

\* Every sample so far is a signed 16-bit value within
\* [-volume * 32767, volume * 32767].
SampleInRange ==
    tone.len >= 1 =>
        /\ tone.int_val \in -(PCM_PEAK + 1) .. PCM_PEAK
        /\ Abs(tone.int_val) * VolumeUnit <= tone.volume * PCM_PEAK

\* C12 as stated: the returned tone holds exactly round(sample_rate * duration)
\* samples, each within [-volume * 32767, volume * 32767]; hit_paddle's tone
\* holds 2205.
C12_ToneRounded ==
    /\ SampleInRange
    /\ tone.returned =>
        /\ tone.len = RoundHalfEven(SAMPLE_RATE * tone.duration, DurationUnit)
        /\ (tone.duration = HitPaddleArgs.duration => tone.len = 2205)

\* C12, amended: the returned tone holds exactly int(sample_rate * duration)
\* samples, the product cut down to an integer (never more than the product,
\* less than one below it), each a signed 16-bit value within
\* [-volume * 32767, volume * 32767]; hit_paddle's tone holds 2205 samples and
\* score's 4410, which is also the rounded product.
C12_ToneTruncated ==
    /\ SampleInRange
    /\ tone.len <= tone.n_samples
    /\ tone.returned =>
        /\ tone.len * DurationUnit <= SAMPLE_RATE * tone.duration
        /\ (tone.len + 1) * DurationUnit > SAMPLE_RATE * tone.duration
        /\ (tone.duration = HitPaddleArgs.duration => tone.len = 2205)
        /\ (tone.duration = ScoreArgs.duration => tone.len = 4410)
        /\ (tone.duration \in {HitPaddleArgs.duration, ScoreArgs.duration} =>
                tone.len = RoundHalfEven(SAMPLE_RATE * tone.duration, DurationUnit))

\* hit_paddle's tone is returned with its last sample at the negative peak.
C12_Witness ==
    /\ tone.returned
    /\ tone.duration = HitPaddleArgs.duration
    /\ tone.volume = HitPaddleArgs.volume
    /\ tone.len = 2205
    /\ tone.int_val = -6553

\* The last tick ended with a paddle's bounce: the ball carries its velocity.
JustBounced == InGame /\ (last.hitL \/ last.hitR) /\ ~last.exitL /\ ~last.exitR

\* C13: after a paddle bounce the hit offset is within [-1, 1] wherever the
\* ball's centre was relative to the paddle, also above or below the paddle's
\* span, where it is -1 or 1; the velocity is that of an angle of at most
\* MAX_ANGLE: |vy| <= BALL_SPEED * sin(MAX_ANGLE), |vx| >= BALL_SPEED * cos(MAX_ANGLE).
C13_OffsetClamped ==
    JustBounced =>
        /\ Abs(ball.vy) <= SpeedSin(Steps)
        /\ Abs(ball.vx) >= SpeedCos(Steps)
        /\ (Abs(last.diff) <= Steps =>
                (ball.vy = SpeedSin(last.diff) /\ Abs(ball.vx) = SpeedCos(last.diff)))
        /\ (last.diff > Steps =>
                (ball.vy = SpeedSin(Steps) /\ Abs(ball.vx) = SpeedCos(Steps)))
        /\ (last.diff < -Steps =>
                (ball.vy = -SpeedSin(Steps) /\ Abs(ball.vx) = SpeedCos(Steps)))

\* The left paddle returned a ball whose centre was below the paddle's span.
C13_Witness ==
    /\ JustBounced
    /\ last.hitL
    /\ last.diff > Steps
    /\ ball.vy = SpeedSin(Steps)

\* C14: a paddle's bounce is applied only in a tick where the ball overlapped
\* that paddle and was moving toward it (vx < 0 for the left paddle, vx > 0 for
\* the right one); no tick applies both bounces; and the same paddle does not
\* bounce the ball in two consecutive ticks.
C14_OneBounce ==
    /\ [](last.hitL => (last.overL /\ last.inVx < 0))
    /\ [](last.hitR => (last.overR /\ last.inVx > 0))
    /\ [](~(last.hitL /\ last.hitR))
    /\ [][(IsMatchTick /\ last.hitL) => ~last'.hitL]_vars
    /\ [][(IsMatchTick /\ last.hitR) => ~last'.hitR]_vars

\* The right paddle has just returned a ball that overlapped it moving right.
C14_Witness ==
    /\ InGame
    /\ last.hitR
    /\ last.overR
    /\ last.inVx > 0
    /\ ball.vx < 0

\* The ball's rectangle is centred on (WIDTH // 2, HEIGHT // 2) and its velocity
\* is one Ball.reset gives: an angle within [-MAX_ANGLE, MAX_ANGLE], either
\* direction.
Recentred(b) ==
    /\ b.x + BALL_SIZE \div 2 = WIDTH \div 2
    /\ b.y + BALL_SIZE \div 2 = HEIGHT \div 2
    /\ \E k \in -Steps .. Steps, direction \in {-1, 1} :
        /\ b.vx = direction * SpeedCos(k)
        /\ b.vy = SpeedSin(k)

\* C15: the ball is re-centred on every score event and only then. A tick in
\* which a score grew ends with the ball centred on (400, 300) with a velocity
\* drawn by reset; a tick without a score event leaves the ball's top where
\* Ball.move put it and its left where Ball.move put it or, after a paddle's
\* bounce, flush outside that paddle.
C15_RecentredOnScore ==
    [][IsMatchTick =>
        LET scored == left_score' + right_score' > left_score + right_score
            moved == move(ball)
        IN  /\ scored <=> (last'.exitL \/ last'.exitR)
            /\ scored => Recentred(ball')
            /\ ~scored =>
                /\ ball'.y = moved.y
                /\ \/ (~last'.hitL /\ ~last'.hitR /\ ball'.x = moved.x)
                   \/ (last'.hitL /\ ball'.x = left_paddle'.x + PADDLE_WIDTH + 1)
                   \/ (last'.hitR /\ ball'.x + BALL_SIZE = right_paddle'.x - 1)
                /\ ~(ball'.x = WIDTH \div 2 - BALL_SIZE \div 2 /\ moved.x # ball'.x)]_vars

\* A point for the left player has just been scored and the ball is back on the
\* centre, moving left.
C15_Witness ==
    /\ InGame
    /\ last.exitR
    /\ left_score >= 1
    /\ Recentred(ball)
    /\ ball.vx < 0

\* C16: one call of move_ai with the ball's centre as target. The paddle's
\* centre more than 10 above the target: y grows by exactly 7, then is clamped;
\* more than 10 below it: y shrinks by exactly 7, then is clamped; within 10 of
\* it: the paddle does not move. The call never increases the distance between
\* the paddle's centre and the target and never moves the paddle by more than 7.
C16_TrackingBand ==
    [][cause' = "move_ai" =>
        LET c == centery(left_paddle.y, PADDLE_HEIGHT)
            target_y == centery(ball.y, BALL_SIZE)
            after == centery(left_paddle'.y, PADDLE_HEIGHT)
        IN  /\ c < target_y - TRACKING_BAND =>
                    left_paddle'.y = Min(left_paddle.y + PADDLE_SPEED, HEIGHT - PADDLE_HEIGHT)
            /\ c > target_y + TRACKING_BAND =>
                    left_paddle'.y = Max(left_paddle.y - PADDLE_SPEED, 0)
            /\ Abs(c - target_y) <= TRACKING_BAND => left_paddle'.y = left_paddle.y
            /\ Abs(after - target_y) <= Abs(c - target_y)
            /\ Abs(left_paddle'.y - left_paddle.y) <= PADDLE_SPEED
            /\ left_paddle'.x = left_paddle.x]_vars

\* The paddle has just moved down by 7 toward a ball whose centre was more than
\* 10 below the paddle's.
C16_Witness ==
    /\ cause = "move_ai"
    /\ left_paddle.y = 107
    /\ centery(ball.y, BALL_SIZE) = 299

\* C17: a window-close in the batch polled at the start of a match tick ends
\* the match before any update of that tick: the paddles and the ball are not
\* moved, no bounce and no scoring branch is taken, no sound is played, the
\* game-over prompt is not shown; game() returns False and the program is
\* terminated after main's pygame.quit(). A window-close is the only thing that
\* takes a match straight to termination.
C17_CloseBeforeUpdate ==
    /\ []((last.polled /\ closeInBatch) =>
            /\ screen = "Terminated"
            /\ cause = "window_close"
            /\ pygame_quits = 1
            /\ last = [NoTick EXCEPT !.polled = TRUE])
    /\ [][(screen = "Match" /\ closeInBatch') =>
            (prompts' = prompts /\ screen' # "GameOverPrompt")]_vars
    /\ [][(screen = "Match" /\ screen' = "Terminated") => closeInBatch']_vars

\* A match was ended by a window-close: its loop polled the events and ran
\* nothing else.
C17_Witness ==
    /\ screen = "Terminated"
    /\ cause = "window_close"
    /\ closeInBatch
    /\ last.polled
    /\ ~last.ran
    /\ last.sounds = << >>

\* C18 as stated: after the wall-collision step of every tick a ball whose top is
\* at or above 0 has vy >= 0 and a ball whose bottom is at or below HEIGHT has
\* vy <= 0; and bounce_y is never applied to a ball that was moving away from
\* the wall it touches, which would flip vy back toward that wall.
C18_WallHeadsInward ==
    /\ [](last.ran =>
            /\ (last.wallY <= 0 => last.wallVy >= 0)
            /\ (last.wallY + BALL_SIZE >= HEIGHT => last.wallVy <= 0))
    /\ [][(IsMatchTick /\ last'.wall) =>
            /\ (last'.wallY <= 0 => ball.vy <= 0)
            /\ (last'.wallY + BALL_SIZE >= HEIGHT => ball.vy >= 0)]_vars

\* C19: every step that enters Match, the first time and after a restart, leaves
\* left_score = right_score = 0, the paddles vertically centred at x = 30 and
\* x = WIDTH - 30 - PADDLE_WIDTH, and the ball centred with a velocity drawn by
\* reset; Match is entered from the menu only, and nothing of an earlier match
\* is left when it is.
C19_FreshMatch ==
    [][(screen # "Match" /\ screen' = "Match") =>
        /\ screen = "Menu"
        /\ left_paddle = NoPaddle /\ right_paddle = NoPaddle /\ ball = NoBall
        /\ left_score' = 0
        /\ right_score' = 0
        /\ left_paddle'.x = 30
        /\ right_paddle'.x = WIDTH - 30 - PADDLE_WIDTH
        /\ centery(left_paddle'.y, PADDLE_HEIGHT) = HEIGHT \div 2
        /\ centery(right_paddle'.y, PADDLE_HEIGHT) = HEIGHT \div 2
        /\ Recentred(ball')
        /\ prompts' = 0
        /\ ~last'.ran]_vars

\* A match has just started: scores 0, both paddles centred, the ball on the
\* centre.
C19_Witness ==
    /\ screen = "Match"
    /\ cause = "start_click"
    /\ left_score = 0
    /\ right_score = 0
    /\ left_paddle = Paddle(30, 250)
    /\ right_paddle = Paddle(755, 250)
    /\ ball.x = 393
    /\ ball.y = 293

\* The bounce's placement of the ball, as the scoring checks see it: after the
\* left paddle's bounce ball.left is 46, after the right paddle's ball.right is 754.
AfterBounce ==
    /\ (last.hitL /\ ~last.hitR) => (ball.x = 46 /\ ball.vx > 0)
    /\ last.hitR => (ball.x + BALL_SIZE = 754 /\ ball.vx < 0)

\* C20: no tick applies a paddle's bounce and takes a scoring branch: a tick with
\* a bounce leaves both scores as they were and ends with ball.left = 46 after
\* the left paddle's bounce and ball.right = 754 after the right paddle's, which
\* is what the scoring checks of that tick saw.
C20_BounceExcludesScore ==
    /\ [](InGame =>
            /\ ~((last.hitL \/ last.hitR) /\ (last.exitL \/ last.exitR))
            /\ AfterBounce)
    /\ [][(IsMatchTick /\ (last'.hitL \/ last'.hitR)) =>
            (left_score' = left_score /\ right_score' = right_score)]_vars

\* The left paddle has just returned the ball in a match where both players
\* have points: the ball's left is 46 and no point was added.
C20_Witness ==
    /\ InGame
    /\ last.hitL
    /\ ~last.exitL
    /\ ~last.exitR
    /\ ball.x = 46
    /\ left_score >= 1
    /\ right_score >= 1

====
